---- MODULE Spec2Model ----
(***************************************************************************)
(* Model of graphrag/query/api.py: the four query operations               *)
(* (global_search, global_search_streaming, local_search,                  *)
(* local_search_streaming), the embedding store binder                     *)
(* (_get_embedding_description_store) and the context normalizer           *)
(* (_reformat_context_data).                                               *)
(***************************************************************************)
EXTENDS Integers, Sequences, FiniteSets, TLC

VARIABLES
    config,     \* config.embeddings.vector_store of the caller's GraphRagConfig
    call,       \* the call in progress, or the last one finished
    prev,       \* what the last call that succeeded before this one returned
    engine,     \* what the retrieval engine answers (fixed by its first use)
    rawCtx,     \* input of a direct _reformat_context_data application
    normOut     \* its output

vars == <<config, call, prev, engine, rawCtx, normOut>>

None == "None"

\* ------------------------------------------------------------------ bounds
MaxRows == 2        \* rows of a context table
MaxKeys == 2        \* categories present in a raw context
MaxFragments == 2   \* response fragments of one engine answer
MaxEntities == 2    \* entities handed to the binder

\* ------------------------------------------------------- python dictionaries
EmptyDict == [k \in {} |-> None]

\* dict.get(key, default)
Get(d, key, default) == IF key \in DOMAIN d THEN d[key] ELSE default

\* dict.update({key: value}) / d[key] = value
Update(d, key, value) ==
    [k \in DOMAIN d \cup {key} |-> IF k = key THEN value ELSE d[k]]

\* ------------------------------------------------------------ context tables
StandardKeys == {"reports", "entities", "relationships", "claims", "sources"}
ContextKeys == StandardKeys \cup {"other"}
Columns == {"id", "text"}
RowValues == {[id |-> 1, text |-> "a"], [id |-> 2, text |-> "b"]}

\* A pandas DataFrame: column-major, every column of length nrows.
DataFrameOf(rows) ==
    [nrows |-> Len(rows),
     cols |-> [c \in Columns |-> [i \in 1..Len(rows) |-> rows[i][c]]]]

RowSeqs(n) == UNION {[1..m -> RowValues] : m \in 0..n}
DataFrames == {DataFrameOf(rows) : rows \in RowSeqs(MaxRows)}

RawContexts ==
    UNION {[ks -> DataFrames] :
              ks \in {s \in SUBSET ContextKeys : Cardinality(s) <= MaxKeys}}

\* DataFrame.to_dict(orient="records"): one record per row, in row order.
to_dict_records(df) ==
    [i \in 1..df.nrows |-> [c \in DOMAIN df.cols |-> df.cols[c][i]]]

final_format_no_claims == [k \in StandardKeys \ {"claims"} |-> <<>>]

final_format == [k \in StandardKeys |-> <<>>]

\* The loop body of _reformat_context_data for one key.
ReformatKeyDropFirst(final, context_data, key) ==
    LET records == to_dict_records(context_data[key])
    IN  IF Len(records) < 1 THEN final ELSE Update(final, key, Tail(records))

ReformatKey(final, context_data, key) ==
    LET records == to_dict_records(context_data[key])
    IN  IF Len(records) < 1 THEN final ELSE Update(final, key, records)

RECURSIVE ReformatLoop(_, _, _)
ReformatLoop(final, context_data, keys) ==
    IF keys = {} THEN final
    ELSE LET key == CHOOSE k \in keys : TRUE
         IN  ReformatLoop(ReformatKey(final, context_data, key),
                          context_data, keys \ {key})

_reformat_context_data(context_data) ==
    ReformatLoop(final_format, context_data, DOMAIN context_data)

\* ----------------------------------------------------- external operations
\* One invocation of an operation outside api.py, as the call log records it.
Op(name) ==
    [op |-> name, store |-> 0, type |-> None, uri |-> <<>>,
     collection |-> None, records |-> <<>>, claims |-> <<>>]

\* The kind of error each external operation raises when it fails.
ErrorOf(name) ==
    CASE name \in {"connect", "open_table"} -> "StoreConnectionError"
      [] name = "store_entity_semantic_embeddings" -> "StoreConnectionError"
      [] name \in {"asearch", "astream_search", "__anext__"} -> "RetrievalError"
      [] name \in {"get_global_search_engine", "get_local_search_engine"} ->
             "EngineConstructionError"
      [] name = "resolve_timestamp_path" -> "ValueError"
      [] OTHER -> "AdapterError"

NoStore == [id |-> 0, type |-> None, collection |-> None, uri |-> <<>>,
            table_open |-> FALSE]

\* The state of one synchronous stretch of a call: the operations invoked so
\* far, the error raised (None while running), the position of the invocation
\* the environment makes fail (0: none) and the operation that did fail
\* (fault), the dictionary vector_store_args / config_args refers to, and the
\* store bound so far.
Start(failAt, args) ==
    [ops |-> <<>>, error |-> None, failAt |-> failAt, fault |-> None,
     args |-> args, rebound |-> FALSE, store |-> NoStore, claims |-> <<>>]

\* The operations the environment can make fail: the store factory fails
\* exactly for a selector it does not know.
Fallible(name) == name # "get_vector_store"

\* Invoke an external operation: nothing once an error is raised; the
\* invocation is logged, and raises when it is the failing one.
InvokeSwallow(st, o) ==
    IF st.error # None THEN st
    ELSE IF Len(st.ops) + 1 = st.failAt /\ Fallible(o.op)
         THEN [st EXCEPT !.ops = Append(@, o), !.fault = o.op]
         ELSE [st EXCEPT !.ops = Append(@, o)]

Invoke(st, o) ==
    IF st.error # None THEN st
    ELSE IF Len(st.ops) + 1 = st.failAt /\ Fallible(o.op)
         THEN [st EXCEPT !.ops = Append(@, o), !.error = ErrorOf(o.op),
                         !.fault = o.op]
         ELSE [st EXCEPT !.ops = Append(@, o)]

\* A step of api.py itself (an assignment), skipped once an error is raised.
Then(st, next) == IF st.error # None THEN st ELSE next

\* -------------------------------------------------------------- vector store
LanceDB == "lancedb"
AzureAISearch == "azure_ai_search"
KnownStoreTypes == {LanceDB, AzureAISearch}
StoreTypes == KnownStoreTypes \cup {"bogus"}
DefaultCollection == "entity_description_embeddings"
DefaultDbUri == <<".", "lancedb">>

\* Entities as the binder sees them: an id and an optional embedding.
EntityLists(n) ==
    UNION {[1..m -> [has_embedding : BOOLEAN]] : m \in 0..n}

RECURSIVE EmbeddedIds(_, _)
EmbeddedIds(entities, i) ==
    IF i > Len(entities) THEN <<>>
    ELSE IF entities[i].has_embedding
         THEN <<i>> \o EmbeddedIds(entities, i + 1)
         ELSE EmbeddedIds(entities, i + 1)

\* VectorStoreFactory.get_vector_store: a store of the selected type, or an
\* error for a selector it does not know.
get_vector_store(st, vector_store_type) ==
    LET o == [Op("get_vector_store") EXCEPT !.type = vector_store_type,
                  !.collection = Get(st.args, "collection_name", None)]
        s == Invoke(st, o)
    IN  IF s.error # None THEN s
        ELSE IF vector_store_type \notin KnownStoreTypes
             THEN [s EXCEPT !.error = "ConfigurationError"]
             ELSE [s EXCEPT !.store = [NoStore EXCEPT !.id = 1,
                                          !.type = vector_store_type,
                                          !.collection = o.collection]]

\* store.connect(...): the store the state holds is connected to uri.
connect(st, uri) ==
    LET o == [Op("connect") EXCEPT !.store = st.store.id,
                  !.type = st.store.type, !.uri = uri]
        s == Invoke(st, o)
    IN  Then(s, [s EXCEPT !.store.uri = uri])

\* store_entity_semantic_embeddings: one record written per entity that has
\* an embedding.
store_entity_semantic_embeddings(st, entities) ==
    Invoke(st, [Op("store_entity_semantic_embeddings") EXCEPT
                    !.store = st.store.id, !.type = st.store.type,
                    !.records = EmbeddedIds(entities, 1)])

\* LanceDBVectorStore(collection_name=...)
LanceDBVectorStore(st, collection_name) ==
    Then(st, [st EXCEPT !.store = [NoStore EXCEPT !.id = 2, !.type = LanceDB,
                                      !.collection = collection_name]])

\* store.db_connection.open_table(store.collection_name)
open_table(st) ==
    LET o == [Op("open_table") EXCEPT !.store = st.store.id,
                  !.type = st.store.type, !.collection = st.store.collection]
        s == Invoke(st, o)
    IN  Then(s, [s EXCEPT !.store.table_open = TRUE])

\* The branch of _get_embedding_description_store on the overwrite flag.
PopulateOrAttachAlwaysWrite(st, entities, collection_name) ==
    LET w == store_entity_semantic_embeddings(st, entities)
    IN  IF Get(st.args, "overwrite", TRUE) THEN w
        ELSE open_table(
                 connect(LanceDBVectorStore(w, collection_name),
                         Get(w.args, "db_uri", DefaultDbUri)))

PopulateOrAttachUriRequired(st, entities, collection_name) ==
    IF Get(st.args, "overwrite", TRUE)
    THEN store_entity_semantic_embeddings(st, entities)
    ELSE IF "db_uri" \notin DOMAIN st.args
         THEN Then(st, [st EXCEPT !.error = "ConfigurationError"])
         ELSE open_table(
                  connect(LanceDBVectorStore(st, collection_name),
                          st.args["db_uri"]))

PopulateOrAttach(st, entities, collection_name) ==
    IF Get(st.args, "overwrite", TRUE)
    THEN store_entity_semantic_embeddings(st, entities)
    ELSE open_table(
             connect(LanceDBVectorStore(st, collection_name),
                     Get(st.args, "db_uri", DefaultDbUri)))

BindPopulateFirst(entities, vector_store_type, is_none, st) ==
    IF st.error # None THEN st ELSE
    LET fresh == is_none \/ st.args = EmptyDict
        s0 == [st EXCEPT !.args = IF fresh THEN EmptyDict ELSE @,
                         !.rebound = fresh]
        collection_name ==
            Get(s0.args, "query_collection_name", DefaultCollection)
        s1 == Then(s0, [s0 EXCEPT !.args =
                            Update(@, "collection_name", collection_name)])
        s2 == get_vector_store(s1, vector_store_type)
        s3 == PopulateOrAttach(s2, entities, collection_name)
        s4 == connect(s3, Get(s3.args, "db_uri", <<>>))
    IN  IF s4.error # None THEN [s4 EXCEPT !.store = NoStore] ELSE s4

BindAttachWithoutFactory(entities, vector_store_type, is_none, st) ==
    IF st.error # None THEN st ELSE
    LET fresh == is_none \/ st.args = EmptyDict
        s0 == [st EXCEPT !.args = IF fresh THEN EmptyDict ELSE @,
                         !.rebound = fresh]
        collection_name ==
            Get(s0.args, "query_collection_name", DefaultCollection)
        s1 == Then(s0, [s0 EXCEPT !.args =
                            Update(@, "collection_name", collection_name)])
        s2 == get_vector_store(s1, vector_store_type)
        s3 == connect(s2, Get(s2.args, "db_uri", <<>>))
        s4 == IF Get(s1.args, "overwrite", TRUE)
              THEN PopulateOrAttach(s3, entities, collection_name)
              ELSE PopulateOrAttach(s1, entities, collection_name)
    IN  IF s4.error # None THEN [s4 EXCEPT !.store = NoStore] ELSE s4

\* _get_embedding_description_store(entities, vector_store_type, config_args),
\* config_args given as st.args (is_none: the argument is None).  The result
\* holds the returned store (NoStore when the call raised), the dictionary as
\* the call left it, and rebound: whether config_args was replaced by a fresh
\* dictionary, so that the caller's one is untouched.
_get_embedding_description_store(entities, vector_store_type, is_none, st) ==
    IF st.error # None THEN st ELSE
    LET fresh == is_none \/ st.args = EmptyDict
        s0 == [st EXCEPT !.args = IF fresh THEN EmptyDict ELSE @,
                         !.rebound = fresh]
        collection_name ==
            Get(s0.args, "query_collection_name", DefaultCollection)
        s1 == Then(s0, [s0 EXCEPT !.args =
                            Update(@, "collection_name", collection_name)])
        s2 == get_vector_store(s1, vector_store_type)
        s3 == connect(s2, Get(s2.args, "db_uri", <<>>))
        s4 == PopulateOrAttach(s3, entities, collection_name)
    IN  IF s4.error # None THEN [s4 EXCEPT !.store = NoStore] ELSE s4

\* -------------------------------------------------------------------- calls
NoConfig == [is_none |-> TRUE, dict |-> EmptyDict]
NoEngine == [chosen |-> FALSE, context_data |-> EmptyDict, fragments |-> <<>>]
NoContext == [done |-> FALSE, value |-> EmptyDict]
NoResponse == [done |-> FALSE, value |-> <<>>]
NoPrev == [kind |-> "none", response |-> <<>>, context |-> EmptyDict]

Idle ==
    [kind |-> "idle", pc |-> "idle", valid |-> TRUE, covariates |-> FALSE,
     vector_store_type |-> None, entities |-> <<>>,
     config_before |-> NoConfig, ops |-> <<>>, error |-> None,
     fault |-> None,
     store |-> NoStore, response |-> NoResponse, context |-> NoContext,
     started |-> FALSE, get_context_data |-> TRUE, empty_stream |-> FALSE,
     yielded |-> <<>>, requested |-> 0, pulled |-> 0]

\* What a finished synchronous stretch leaves in the call record.
Finish(c, st, pc) ==
    [c EXCEPT !.ops = c.ops \o st.ops,
              !.error = st.error,
              !.fault = st.fault,
              !.store = st.store,
              !.pc = IF st.error # None THEN "raised" ELSE pc]

\* The caller's dictionary after a stretch that may have written through
\* vector_store_args / config_args.
ConfigAfter(before, aliased, st) ==
    IF aliased /\ ~st.rebound THEN [is_none |-> FALSE, dict |-> st.args]
    ELSE before

\* --------------------------------------------------- binder specification
BindFailPoints == 0..5

\* with(d, present, key, value): d, with key set when present.
With(d, present, key, value) == IF present THEN Update(d, key, value) ELSE d

ArgDicts ==
    {With(With(With(With(EmptyDict,
                         ow # "absent", "overwrite", ow = "true"),
                    qc, "query_collection_name", "mycollection"),
               uri, "db_uri", <<"data", "db">>),
          ty # "absent", "type", ty) :
        ow \in {"absent", "true", "false"}, qc \in BOOLEAN, uri \in BOOLEAN,
        ty \in {"absent", LanceDB}}

BinderConfigs ==
    {NoConfig} \cup {[is_none |-> FALSE, dict |-> d] : d \in ArgDicts}

InitBind ==
    /\ config \in BinderConfigs
    /\ call = Idle
    /\ prev = NoPrev
    /\ engine = NoEngine
    /\ rawCtx = EmptyDict
    /\ normOut = NoContext

\* A direct call of _get_embedding_description_store with the caller's
\* dictionary as config_args.
Bind ==
    /\ call.pc = "idle"
    /\ \E entities \in EntityLists(MaxEntities), t \in StoreTypes,
          failAt \in BindFailPoints :
           LET c == [Idle EXCEPT !.kind = "_get_embedding_description_store",
                                 !.vector_store_type = t,
                                 !.entities = entities,
                                 !.config_before = config]
               st == _get_embedding_description_store(
                         entities, t, config.is_none,
                         Start(failAt, config.dict))
           IN  /\ call' = Finish(c, st, "returned")
               /\ config' = ConfigAfter(config, TRUE, st)
    /\ UNCHANGED <<prev, engine, rawCtx, normOut>>

NextBind == Bind

SpecBind == InitBind /\ [][NextBind]_vars

\* ------------------------------------------------- normalizer specification
InitNorm ==
    /\ rawCtx \in RawContexts
    /\ normOut = NoContext
    /\ config = NoConfig
    /\ call = Idle
    /\ prev = NoPrev
    /\ engine = NoEngine

Normalize ==
    /\ ~normOut.done
    /\ normOut' = [done |-> TRUE, value |-> _reformat_context_data(rawCtx)]
    /\ UNCHANGED <<config, call, prev, engine, rawCtx>>

NextNorm == Normalize

SpecNorm == InitNorm /\ [][NextNorm]_vars

\* ------------------------------------------------------- retrieval engine
\* A chunk of the engine: a context-data mapping (is_dict) or a piece of text.
DictChunk(tables) == [is_dict |-> TRUE, tables |-> tables, text |-> 0]
TextChunk(token) == [is_dict |-> FALSE, tables |-> EmptyDict, text |-> token]

EngineTables ==
    {DataFrameOf(<<>>),
     DataFrameOf(<<[id |-> 2, text |-> "b"], [id |-> 1, text |-> "a"]>>)}
EngineContexts ==
    {EmptyDict} \cup
    {[reports |-> t, entities |-> DataFrameOf(<<>>)] : t \in EngineTables}

\* The answers of an engine to the query: its context-data payload (a
\* mapping, or text: SearchResult.context_data may be a str) and the response
\* fragments 1..n it produces.
EngineAnswers ==
    {[chosen |-> TRUE, context_data |-> p, fragments |-> [i \in 1..n |-> i]] :
        p \in {DictChunk(t) : t \in EngineContexts} \cup {TextChunk(0)},
        n \in 0..MaxFragments}

\* Engine.asearch(query): the SearchResult.
asearch(e) == [response |-> e.fragments, context_data |-> e.context_data]

\* Engine.astream_search(query): the context data, then the fragments; or
\* nothing at all.
astream_search(e, empty) ==
    IF empty THEN <<>>
    ELSE <<e.context_data>> \o [i \in 1..Len(e.fragments) |-> TextChunk(e.fragments[i])]

\* ------------------------------------------------------ query orchestrator
Blocking == {"global_search", "local_search"}
Streaming == {"global_search_streaming", "local_search_streaming"}
Local == {"local_search", "local_search_streaming"}
Global == {"global_search", "global_search_streaming"}

QueryEntities == <<[has_embedding |-> TRUE], [has_embedding |-> FALSE]>>
RootDir == "proj"
\* The positions at which an external operation of the set-up can fail.
SetupFailPoints(kind) == IF kind \in Global THEN 0..3 ELSE 0..11

\* str(resolve_timestamp_path(Path(str(root_dir)) / config.storage.base_dir)
\*     / "lancedb")
lancedb_dir(root_dir) == <<root_dir, "output", "lancedb">>

\* _reformat_context_data applied to a payload of the engine: iterating text
\* and indexing it by its characters raises TypeError.
Reformat(payload) ==
    IF payload.is_dict
    THEN [error |-> None, value |-> _reformat_context_data(payload.tables)]
    ELSE [error |-> "TypeError", value |-> EmptyDict]

\* global_search / global_search_streaming up to the engine: lines 81-88.
GlobalSetup(st) ==
    Invoke(Invoke(Invoke(st, Op("read_indexer_reports")),
                  Op("read_indexer_entities")),
           Op("get_global_search_engine"))

\* The covariates argument of the engine: line 209.
CovariatesAlwaysRead(st, covariates) ==
    LET s == Invoke(st, Op("read_indexer_covariates"))
    IN  Then(s, [s EXCEPT !.claims = IF covariates THEN <<"claim">> ELSE <<>>])

Covariates(st, covariates) ==
    IF covariates
    THEN LET s == Invoke(st, Op("read_indexer_covariates"))
         IN  Then(s, [s EXCEPT !.claims = <<"claim">>])
    ELSE Then(st, [st EXCEPT !.claims = <<>>])

LocalSetupEngineFirst(st, covariates) ==
    LET vector_store_type == Get(st.args, "type", LanceDB)
        s1 == Invoke(st, Op("read_indexer_entities"))
        s2 == Invoke(s1, Op("resolve_timestamp_path"))
        s3 == Then(s2, [s2 EXCEPT !.args =
                            Update(@, "db_uri", lancedb_dir(RootDir))])
        s5 == Covariates(s3, covariates)
        s6 == Invoke(Invoke(Invoke(s5, Op("read_indexer_reports")),
                            Op("read_indexer_text_units")),
                     Op("read_indexer_relationships"))
        s7 == Invoke(s6, [Op("get_local_search_engine") EXCEPT
                              !.store = s6.store.id, !.type = s6.store.type,
                              !.claims = s6.claims])
    IN  _get_embedding_description_store(
            QueryEntities, vector_store_type, FALSE, s7)

\* local_search / local_search_streaming up to the engine: lines 190-220.
\* st.args is the dictionary vector_store_args refers to.
LocalSetup(st, covariates) ==
    LET vector_store_type == Get(st.args, "type", LanceDB)
        s1 == Invoke(st, Op("read_indexer_entities"))
        s2 == Invoke(s1, Op("resolve_timestamp_path"))
        s3 == Then(s2, [s2 EXCEPT !.args =
                            Update(@, "db_uri", lancedb_dir(RootDir))])
        s4 == _get_embedding_description_store(
                  QueryEntities, vector_store_type, FALSE, s3)
        s5 == Covariates(s4, covariates)
        s6 == Invoke(Invoke(Invoke(s5, Op("read_indexer_reports")),
                            Op("read_indexer_text_units")),
                     Op("read_indexer_relationships"))
    IN  Invoke(s6, [Op("get_local_search_engine") EXCEPT
                       !.store = s6.store.id, !.type = s6.store.type,
                       !.claims = s6.claims])

\* config.embeddings.vector_store if config.embeddings.vector_store else {}:
\* the caller's dictionary itself when it is not None and not empty.
Aliased(cfg) == ~cfg.is_none /\ cfg.dict # EmptyDict

Setup(kind, cfg, covariates, failAt) ==
    IF kind \in Global THEN GlobalSetup(Start(failAt, EmptyDict))
    ELSE LocalSetup(Start(failAt, IF Aliased(cfg) THEN cfg.dict ELSE EmptyDict),
                    covariates)

\* @validate_call: a call whose arguments do not fit the annotations raises
\* before the body runs.
ValidateNever(c) == c

validate_call(c) ==
    IF c.valid THEN c
    ELSE [c EXCEPT !.pc = "raised", !.error = "ValidationError"]

\* The arguments of a call, as far as the call depends on them: whether they
\* fit the annotations, and whether covariates is a table or None.
CallArgs(kind) ==
    {[valid |-> FALSE, covariates |-> FALSE]} \cup
    {[valid |-> TRUE, covariates |-> cov] :
        cov \in IF kind \in Local THEN BOOLEAN ELSE {FALSE}}

NewCall(kind, args, cfg) ==
    [Idle EXCEPT !.kind = kind, !.pc = "called", !.valid = args.valid,
                 !.covariates = args.covariates,
                 !.entities = QueryEntities, !.config_before = cfg]

\* What a finished call leaves for the next one to be compared with.
RECURSIVE Texts(_)
Texts(chunks) ==
    IF chunks = <<>> THEN <<>>
    ELSE <<Head(chunks).text>> \o Texts(Tail(chunks))

Succeeded(c) ==
    \/ c.kind \in Blocking /\ c.pc = "returned"
    \/ c.kind \in Streaming /\ c.pc = "exhausted" /\ ~c.empty_stream

Summary(c) ==
    IF c.kind \in Blocking
    THEN [kind |-> c.kind, response |-> c.response.value,
          context |-> c.context.value]
    ELSE [kind |-> c.kind, response |-> Texts(Tail(c.yielded)),
          context |-> Head(c.yielded).tables]

Over(c) == c.pc \in {"idle", "returned", "raised", "exhausted", "closed"}

\* The engine's coroutine or generator is made: it runs, and may fail, only
\* when awaited.
MakeRun(st, name) ==
    IF st.error # None THEN st
    ELSE [st EXCEPT !.ops = Append(@, Op(name))]

\* Lines 90-92 and 223-225: the result of the await normalized and returned.
BlockingReturnPartial(c, result) ==
    LET n == Reformat(result.context_data)
    IN  IF n.error # None
        THEN [c EXCEPT !.pc = "returned",
                       !.response = [done |-> TRUE, value |-> result.response]]
        ELSE [c EXCEPT !.pc = "returned",
                       !.response = [done |-> TRUE, value |-> result.response],
                       !.context = [done |-> TRUE, value |-> n.value]]

BlockingReturnRaw(c, result) ==
    IF ~result.context_data.is_dict
    THEN [c EXCEPT !.pc = "raised", !.error = "TypeError"]
    ELSE [c EXCEPT !.pc = "returned",
                   !.response = [done |-> TRUE, value |-> result.response],
                   !.context = [done |-> TRUE,
                                value |-> result.context_data.tables]]

BlockingReturn(c, result) ==
    LET n == Reformat(result.context_data)
    IN  IF n.error # None
        THEN [c EXCEPT !.pc = "raised", !.error = n.error]
        ELSE [c EXCEPT !.pc = "returned",
                       !.response = [done |-> TRUE, value |-> result.response],
                       !.context = [done |-> TRUE, value |-> n.value]]

\* Lines 141-147 and 302-308: one chunk of the engine's stream handled.
OnChunkRaw(c, stream_chunk) ==
    [c EXCEPT !.pc = "suspended", !.yielded = Append(@, stream_chunk),
              !.get_context_data = FALSE]

OnChunkDuplicate(c, stream_chunk) ==
    IF c.get_context_data
    THEN LET n == Reformat(stream_chunk)
         IN  IF n.error # None
             THEN [c EXCEPT !.pc = "raised", !.error = n.error]
             ELSE [c EXCEPT !.pc = "suspended",
                            !.context = [done |-> TRUE, value |-> n.value],
                            !.yielded = Append(@, DictChunk(n.value)),
                            !.get_context_data = FALSE]
    ELSE [c EXCEPT !.pc = "suspended",
                   !.yielded = Append(Append(@, stream_chunk), stream_chunk)]

OnChunkPrefetch(c, stream_chunk) ==
    IF c.get_context_data
    THEN LET n == Reformat(stream_chunk)
         IN  IF n.error # None
             THEN [c EXCEPT !.pc = "raised", !.error = n.error]
             ELSE [c EXCEPT !.pc = "suspended",
                            !.context = [done |-> TRUE, value |-> n.value],
                            !.yielded = Append(@, DictChunk(n.value)),
                            !.get_context_data = FALSE,
                            !.pulled = @ + 1]
    ELSE [c EXCEPT !.pc = "suspended", !.yielded = Append(@, stream_chunk)]

OnChunk(c, stream_chunk) ==
    IF c.get_context_data
    THEN LET n == Reformat(stream_chunk)
         IN  IF n.error # None
             THEN [c EXCEPT !.pc = "raised", !.error = n.error]
             ELSE [c EXCEPT !.pc = "suspended",
                            !.context = [done |-> TRUE, value |-> n.value],
                            !.yielded = Append(@, DictChunk(n.value)),
                            !.get_context_data = FALSE]
    ELSE [c EXCEPT !.pc = "suspended", !.yielded = Append(@, stream_chunk)]

\* The engine's stream is over: the loop ends and the generator returns.
OnExhaustedTemplate(c) ==
    IF c.get_context_data
    THEN [c EXCEPT !.pc = "exhausted",
                   !.context = [done |-> TRUE, value |-> final_format],
                   !.yielded = Append(@, DictChunk(final_format))]
    ELSE [c EXCEPT !.pc = "exhausted"]

OnExhausted(c) == [c EXCEPT !.pc = "exhausted"]

\* ------------------------------------------------------ query specification
QueryDicts ==
    {With(With(EmptyDict, ow # "absent", "overwrite", ow = "true"),
          ty # "absent", "type", ty) :
        ow \in {"absent", "true", "false"},
        ty \in {"absent", "bogus"}}

QueryConfigs ==
    {NoConfig} \cup {[is_none |-> FALSE, dict |-> d] : d \in QueryDicts}

Init ==
    /\ config \in QueryConfigs
    /\ call = Idle
    /\ prev = NoPrev
    /\ engine = NoEngine
    /\ rawCtx = EmptyDict
    /\ normOut = NoContext

Remember == IF Succeeded(call) THEN Summary(call) ELSE prev

\* A blocking call, up to its await of the engine.
CallBlocking(kind) ==
    /\ Over(call)
    /\ \E args \in CallArgs(kind) :
           LET c == validate_call(NewCall(kind, args, config))
           IN  IF c.pc = "raised"
               THEN call' = c /\ config' = config
               ELSE \E failAt \in SetupFailPoints(kind) :
                        LET st == Setup(kind, config, c.covariates, failAt)
                        IN  /\ call' = Finish(c, MakeRun(st, "asearch"),
                                              "awaiting")
                            /\ config' = ConfigAfter(
                                   config, kind \in Local /\ Aliased(config), st)
    /\ prev' = Remember
    /\ UNCHANGED <<engine, rawCtx, normOut>>

global_search == CallBlocking("global_search")

local_search == CallBlocking("local_search")

\* The engine answers the await of a blocking call, or fails.
EngineReturn ==
    /\ call.kind \in Blocking /\ call.pc = "awaiting"
    /\ \/ /\ call' = [call EXCEPT !.pc = "raised", !.fault = "asearch",
                                  !.error = ErrorOf("asearch")]
          /\ UNCHANGED engine
       \/ \E e \in EngineAnswers :
              /\ engine.chosen => e = engine
              /\ engine' = e
              /\ call' = BlockingReturn(call, asearch(e))
    /\ UNCHANGED <<config, prev, rawCtx, normOut>>

\* A streaming call: the arguments are validated and the generator is made;
\* its body runs when the consumer asks for the first chunk.
CallStreaming(kind) ==
    /\ Over(call)
    /\ \E args \in CallArgs(kind) :
           LET c == validate_call(NewCall(kind, args, config))
           IN  call' = IF c.pc = "raised" THEN c ELSE [c EXCEPT !.pc = "created"]
    /\ prev' = Remember
    /\ UNCHANGED <<config, engine, rawCtx, normOut>>

global_search_streaming == CallStreaming("global_search_streaming")

local_search_streaming == CallStreaming("local_search_streaming")

\* The consumer asks for the next chunk.
Request ==
    /\ call.kind \in Streaming /\ call.pc \in {"created", "suspended"}
    /\ call' = [call EXCEPT !.pc = "running", !.requested = @ + 1]
    /\ UNCHANGED <<config, prev, engine, rawCtx, normOut>>

\* The first request runs the body up to the loop: lines 127-140 and 265-301.
StartBody ==
    /\ call.kind \in Streaming /\ call.pc = "running" /\ ~call.started
    /\ \E failAt \in SetupFailPoints(call.kind), empty \in BOOLEAN :
           LET st == Setup(call.kind, config, call.covariates, failAt)
           IN  /\ call' = [Finish(call, MakeRun(st, "astream_search"),
                                  "running")
                              EXCEPT !.started = TRUE,
                                     !.empty_stream = empty /\ st.error = None,
                                     !.get_context_data = TRUE]
               /\ config' = ConfigAfter(config,
                                       call.kind \in Local /\ Aliased(config),
                                       st)
    /\ UNCHANGED <<prev, engine, rawCtx, normOut>>

\* The loop asks the engine for its next chunk: the engine fails, or its
\* stream is over, or it hands a chunk, which the loop body handles.
Pull ==
    /\ call.kind \in Streaming /\ call.pc = "running" /\ call.started
    /\ \/ /\ call' = [call EXCEPT !.pc = "raised", !.fault = "__anext__",
                                  !.error = ErrorOf("__anext__")]
          /\ UNCHANGED engine
       \/ /\ call.empty_stream
          /\ call' = OnExhausted(call)
          /\ UNCHANGED engine
       \/ /\ ~call.empty_stream
          /\ \E e \in EngineAnswers :
                 LET stream == astream_search(e, FALSE)
                 IN  /\ engine.chosen => e = engine
                     /\ engine' = e
                     /\ call' =
                          IF call.pulled >= Len(stream)
                          THEN OnExhausted(call)
                          ELSE OnChunk([call EXCEPT !.pulled = @ + 1],
                                       stream[call.pulled + 1])
    /\ UNCHANGED <<config, prev, rawCtx, normOut>>

\* The consumer stops iterating.
Close ==
    /\ call.kind \in Streaming /\ call.pc \in {"created", "suspended"}
    /\ call' = [call EXCEPT !.pc = "closed"]
    /\ UNCHANGED <<config, prev, engine, rawCtx, normOut>>

Next ==
    \/ global_search
    \/ local_search
    \/ EngineReturn
    \/ global_search_streaming
    \/ local_search_streaming
    \/ Request
    \/ StartBody
    \/ Pull
    \/ Close

Spec == Init /\ [][Next]_vars

\* ------------------------------------------------------------------ claims
\* C1: the output of the normalizer has exactly the five standard keys,
\* whatever the keys of the raw context.
C1_ExactKeys == normOut.done => DOMAIN normOut.value = StandardKeys

\* C2: in a streaming call that has yielded anything, the first element
\* yielded is the normalized first chunk of the engine, a context mapping
\* and not a response fragment, and every later element is a fragment.
C2_ContextFirst ==
    (call.kind \in Streaming /\ call.yielded # <<>>) =>
        LET first == astream_search(engine, FALSE)[1]
        IN  /\ engine.chosen
            /\ call.yielded[1].is_dict
            /\ call.yielded[1] =
                   DictChunk(_reformat_context_data(first.tables))
            /\ DOMAIN call.yielded[1].tables = StandardKeys
            /\ \A i \in 2..Len(call.yielded) : ~call.yielded[i].is_dict

C2_Witness ==
    /\ call.kind = "local_search_streaming"
    /\ Len(call.yielded) = 3
    /\ Len(call.yielded[1].tables["reports"]) = 2
    /\ call.yielded[1].tables["sources"] = <<>>

\* C3: a blocking and a streaming call of the same breadth that both succeed
\* over the same engine answer give the same response (the streamed
\* fragments, concatenated) and the same normalized context.
SameBreadth(k1, k2) == (k1 \in Local) = (k2 \in Local)

C3_ModeEquivalence ==
    (/\ Succeeded(call)
     /\ prev.kind # "none"
     /\ SameBreadth(call.kind, prev.kind)
     /\ (call.kind \in Streaming) # (prev.kind \in Streaming)) =>
        /\ Summary(call).response = prev.response
        /\ Summary(call).context = prev.context

C3_Witness ==
    /\ Succeeded(call)
    /\ call.kind = "global_search_streaming"
    /\ prev.kind = "global_search"
    /\ Len(prev.response) = 2
    /\ Len(prev.context["reports"]) = 2

\* C4: a binder call with overwrite false never invokes the bulk write, and
\* one with overwrite true or absent never opens an existing table.
Overwrite(c) == Get(c.config_before.dict, "overwrite", TRUE)
Invoked(c, name) == \E i \in 1..Len(c.ops) : c.ops[i].op = name
IsBind(c) == c.kind = "_get_embedding_description_store"

C4_WriteXorOpen ==
    IsBind(call) =>
        /\ ~Overwrite(call) => ~Invoked(call, "store_entity_semantic_embeddings")
        /\ Overwrite(call) => ~Invoked(call, "open_table")

C4_Witness ==
    /\ IsBind(call) /\ call.pc = "returned"
    /\ ~Overwrite(call)
    /\ Invoked(call, "open_table")
    /\ call.store.table_open

\* C5 (as claimed): a binder call in attach mode whose configuration map has
\* no db_uri fails with a ConfigurationError, and no store is connected or
\* returned.
MissingUri(c) ==
    IsBind(c) /\ ~Overwrite(c) /\ "db_uri" \notin DOMAIN c.config_before.dict

C6_ConfigUnchanged ==
    call.kind \in Local => config = call.config_before

\* C7: a blocking call returns the response and the normalized context
\* together, or raises and returns neither.
C7_AllOrNothing ==
    call.kind \in Blocking =>
        /\ call.response.done <=> call.context.done
        /\ call.response.done <=> call.pc = "returned"
        /\ call.pc = "returned" => call.error = None
        /\ call.pc = "raised" => call.error # None

C7_Witness ==
    /\ call.kind = "local_search"
    /\ call.pc = "raised"
    /\ call.error = "TypeError"
    /\ ~call.response.done /\ ~call.context.done

\* C8: a call whose arguments do not fit raises a validation error before
\* any adapter, store or engine operation is invoked.
C8_ValidateFirst ==
    (call.kind # "idle" /\ ~call.valid) =>
        /\ call.pc = "raised"
        /\ call.error = "ValidationError"
        /\ call.ops = <<>>
        /\ ~call.started
        /\ config = call.config_before

C8_Witness ==
    /\ call.kind = "local_search_streaming"
    /\ ~call.valid
    /\ call.pc = "raised"
    /\ call.error = "ValidationError"

\* C9: a standard key absent from the raw context, or mapped to an empty
\* table, is normalized to the empty list.
C9_AbsentOrEmptyIsEmptyList ==
    normOut.done =>
        \A k \in StandardKeys :
            (k \notin DOMAIN rawCtx \/ rawCtx[k].nrows = 0) =>
                (k \in DOMAIN normOut.value /\ normOut.value[k] = <<>>)

C9_Witness ==
    /\ normOut.done
    /\ "reports" \in DOMAIN rawCtx /\ rawCtx["reports"].nrows = 2
    /\ "entities" \in DOMAIN rawCtx /\ rawCtx["entities"].nrows = 0
    /\ normOut.value["entities"] = <<>>
    /\ normOut.value["claims"] = <<>>

\* C10: a key mapped to a non-empty table of N rows is normalized to a list
\* of N records, in row order, each equal field for field to its row.
C10_RowsPreserved ==
    normOut.done =>
        \A k \in DOMAIN rawCtx :
            rawCtx[k].nrows >= 1 =>
                /\ k \in DOMAIN normOut.value
                /\ Len(normOut.value[k]) = rawCtx[k].nrows
                /\ \A i \in 1..rawCtx[k].nrows :
                       \A c \in Columns :
                           /\ c \in DOMAIN normOut.value[k][i]
                           /\ normOut.value[k][i][c] = rawCtx[k].cols[c][i]
                /\ \A i \in 1..rawCtx[k].nrows : DOMAIN normOut.value[k][i] = Columns

C10_Witness ==
    /\ normOut.done
    /\ \E k \in DOMAIN rawCtx :
           /\ rawCtx[k].nrows = 2
           /\ rawCtx[k].cols["id"] = <<2, 1>>
           /\ normOut.value[k] = <<[id |-> 2, text |-> "b"], [id |-> 1, text |-> "a"]>>
\* C11: a streaming call whose engine stream ends without a chunk yields
\* nothing, not even an empty context, and ends.
C11_EmptyStreamYieldsNothing ==
    (call.kind \in Streaming /\ call.empty_stream) =>
        /\ call.yielded = <<>>
        /\ ~call.context.done
        /\ call.pulled = 0
        /\ call.pc \in {"running", "exhausted", "raised"}
        /\ (call.pc = "raised") = (call.fault = "__anext__")

C11_Witness ==
    /\ call.kind = "global_search_streaming"
    /\ call.empty_stream
    /\ call.pc = "exhausted"
    /\ call.requested = 1
    /\ call.yielded = <<>>

\* C12: a failure of an external operation surfaces with its own kind, and
\* no operation is invoked again after it: the operations a call invokes
\* are a prefix of those of the same call without failure.
IsPrefix(a, b) == Len(a) <= Len(b) /\ \A i \in 1..Len(a) : a[i] = b[i]

RunOp(kind) == IF kind \in Blocking THEN "asearch" ELSE "astream_search"

FailureFreeOps(c) ==
    MakeRun(Setup(c.kind, c.config_before, c.covariates, 0), RunOp(c.kind)).ops

Count(c, name) == Cardinality({i \in 1..Len(c.ops) : c.ops[i].op = name})

C12_NoSwallowNoRetry ==
    (call.kind \in Blocking \cup Streaming) =>
        /\ call.fault # None =>
               /\ call.pc = "raised"
               /\ call.error = ErrorOf(call.fault)
               /\ call.fault \notin {"asearch", "__anext__"} =>
                      call.ops[Len(call.ops)].op = call.fault
        /\ IsPrefix(call.ops, FailureFreeOps(call))
        /\ Count(call, RunOp(call.kind)) <= 1
        /\ Count(call, "connect") <= 2
        /\ Count(call, "open_table") <= 1
        /\ Count(call, "store_entity_semantic_embeddings") <= 1
        /\ call.pulled <= call.requested

C12_Witness ==
    /\ call.kind = "local_search_streaming"
    /\ call.pc = "raised"
    /\ call.fault = "__anext__"
    /\ call.error = "RetrievalError"
    /\ Len(call.yielded) = 2

\* C13: in fresh mode the binder instantiates a store of the selected type,
\* connects it, and only then writes the entities' embeddings into it: one
\* record per entity that has an embedding, none for the others, which are
\* no error.
RecordIds(records) == {records[i] : i \in 1..Len(records)}

C13_FreshConnectThenWrite ==
    (IsBind(call) /\ Overwrite(call)) =>
        /\ ~Invoked(call, "open_table")
        /\ call.pc = "returned" =>
               Invoked(call, "store_entity_semantic_embeddings")
        /\ (call.fault = None /\ call.vector_store_type \in KnownStoreTypes)
               => call.pc = "returned"
        /\ \A i \in 1..Len(call.ops) :
               call.ops[i].op = "store_entity_semantic_embeddings" =>
                   /\ Len(call.ops[i].records) =
                          Cardinality(RecordIds(call.ops[i].records))
                   /\ \A e \in 1..Len(call.entities) :
                          call.entities[e].has_embedding <=>
                              e \in RecordIds(call.ops[i].records)
                   /\ RecordIds(call.ops[i].records)
                          \subseteq 1..Len(call.entities)
                   /\ call.ops[i].type = call.vector_store_type
                   /\ \E j \in 1..(i - 1) :
                          /\ call.ops[j].op = "connect"
                          /\ call.ops[j].store = call.ops[i].store
                          /\ \E k \in 1..(j - 1) :
                                 /\ call.ops[k].op = "get_vector_store"
                                 /\ call.ops[k].type = call.vector_store_type

C13_Witness ==
    /\ IsBind(call)
    /\ Overwrite(call)
    /\ call.pc = "returned"
    /\ Len(call.entities) = 2
    /\ call.entities[1].has_embedding
    /\ ~call.entities[2].has_embedding
    /\ call.ops[Len(call.ops)].records = <<1>>

\* C14: a store-type selector the factory does not know makes the binder
\* fail with ConfigurationError in fresh and in attach mode, and no store is
\* connected, written, opened or returned.
C14_UnknownTypeFails ==
    (IsBind(call) /\ call.vector_store_type \notin KnownStoreTypes) =>
        /\ call.pc = "raised"
        /\ call.error = "ConfigurationError"
        /\ call.store = NoStore
        /\ \A i \in 1..Len(call.ops) : call.ops[i].op = "get_vector_store"

C14_Witness ==
    /\ IsBind(call)
    /\ ~Overwrite(call)
    /\ call.vector_store_type \notin KnownStoreTypes
    /\ call.pc = "raised"
    /\ call.error = "ConfigurationError"
    /\ Len(call.ops) = 1

\* C15: a local query called with covariates None does not invoke the
\* covariate adapter, constructs its engine with the empty claims list, and
\* does not fail for the lack of covariates.
SelectedType(c) == Get(c.config_before.dict, "type", LanceDB)

C15_NoCovariates ==
    (call.kind \in Local /\ call.valid /\ ~call.covariates) =>
        /\ ~Invoked(call, "read_indexer_covariates")
        /\ \A i \in 1..Len(call.ops) :
               call.ops[i].op = "get_local_search_engine" =>
                   call.ops[i].claims = <<>>
        /\ (/\ call.ops # <<>>
            /\ call.fault = None
            /\ SelectedType(call) \in KnownStoreTypes)
               => Invoked(call, "get_local_search_engine")

C15_Witness ==
    /\ call.kind = "local_search"
    /\ call.valid /\ ~call.covariates
    /\ call.pc = "returned"
    /\ \E i \in 1..Len(call.ops) :
           /\ call.ops[i].op = "get_local_search_engine"
           /\ call.ops[i].claims = <<>>

\* C16: every chunk of the engine's stream after the first is yielded as it
\* is and in order, none dropped, duplicated or normalized: the k-th chunk
\* yielded (k >= 2) is the engine's k-th chunk, and as many chunks are
\* yielded as the engine produced.
C16_LaterChunksUnmodified ==
    (call.kind \in Streaming /\ call.yielded # <<>>) =>
        LET stream == astream_search(engine, FALSE)
        IN  /\ engine.chosen
            /\ Len(call.yielded) <= Len(stream)
            /\ \A k \in 2..Len(call.yielded) : call.yielded[k] = stream[k]
            /\ call.pc # "raised" => Len(call.yielded) = call.pulled
            /\ call.pc = "exhausted" => Len(call.yielded) = Len(stream)

C16_Witness ==
    /\ call.kind \in Streaming
    /\ call.pc = "exhausted"
    /\ Len(call.yielded) = 3
    /\ call.yielded[2] = TextChunk(1)
    /\ call.yielded[3] = TextChunk(2)
    /\ astream_search(engine, FALSE)[3] = TextChunk(2)

\* C17: the stream is driven by its consumer: at every point no more chunks
\* have been pulled from the engine than the consumer has asked for, nothing
\* is done before the first request, and once the consumer has stopped
\* nothing more is pulled.
C17_PullDriven ==
    call.kind \in Streaming =>
        /\ call.pulled <= call.requested
        /\ Len(call.yielded) <= call.requested
        /\ call.pc = "created" => (call.ops = <<>> /\ call.requested = 0)
        /\ call.pc \in {"suspended", "closed"} =>
               (call.pulled = call.requested
                /\ Len(call.yielded) = call.requested)
        /\ call.pc = "closed" =>
               (~ENABLED Request /\ ~ENABLED StartBody /\ ~ENABLED Pull)

C17_Witness ==
    /\ call.kind \in Streaming
    /\ call.pc = "closed"
    /\ call.requested = 2
    /\ call.pulled = 2
    /\ Len(astream_search(engine, FALSE)) = 3

\* C18: every store a binder call connects is the store the call returns:
\* connect is invoked on one store instance only, and no store is connected
\* and then dropped.
C18_ConnectOnlyReturned ==
    (IsBind(call) /\ call.pc = "returned") =>
        \A i \in 1..Len(call.ops) :
            call.ops[i].op = "connect" => call.ops[i].store = call.store.id

\* C19: the store the binder returns is of the type the selector names, in
\* attach mode as in fresh mode.
C19_ReturnedTypeIsSelected ==
    (IsBind(call) /\ call.pc = "returned") =>
        call.store.type = call.vector_store_type

\* C20: a local query adapts the entities, then binds the store (connect,
\* then write or open), then constructs the engine on that store, then runs
\* it, and normalizes the context only after the engine has produced it.
Before(c, a, b) ==
    \A j \in 1..Len(c.ops) :
        c.ops[j].op = b => \E i \in 1..(j - 1) : c.ops[i].op = a

C20_LocalOrder ==
    call.kind \in Local =>
        /\ Before(call, "read_indexer_entities", "get_vector_store")
        /\ Before(call, "get_vector_store", "connect")
        /\ \A i \in 1..Len(call.ops) :
               call.ops[i].op = "get_local_search_engine" =>
                   \E j \in 1..(i - 1), k \in 1..(i - 1) :
                       /\ j < k
                       /\ call.ops[j].op = "connect"
                       /\ call.ops[j].store = call.ops[i].store
                       /\ call.ops[k].op \in
                              {"store_entity_semantic_embeddings", "open_table"}
                       /\ call.ops[k].store = call.ops[i].store
        /\ Before(call, "get_local_search_engine", RunOp(call.kind))
        /\ Invoked(call, RunOp(call.kind)) =>
               call.ops[Len(call.ops)].op = RunOp(call.kind)
        /\ call.context.done =>
               /\ Invoked(call, RunOp(call.kind))
               /\ engine.chosen
               /\ call.kind \in Streaming => call.pulled >= 1
               /\ call.kind \in Blocking => call.pc = "returned"

C20_Witness ==
    /\ call.kind = "local_search_streaming"
    /\ ~Overwrite(call)
    /\ call.context.done
    /\ call.pc = "suspended"
    /\ Len(call.ops) = 12
    /\ call.ops[5].op = "connect" /\ call.ops[6].op = "open_table"
    /\ call.ops[11].op = "get_local_search_engine"

====
